---- MODULE Spec2Model ----
(***************************************************************************)
(* A model of the scheduled MAC rotation engine of mac_changer.py: the     *)
(* MACScheduler object (its run flag, its loop thread, its configuration   *)
(* and the configuration file), the loop threads it spawns, the control    *)
(* operations start / stop / status / configure_interactive, and the       *)
(* MACChanger operations the loop calls through.                           *)
(***************************************************************************)
EXTENDS Integers, Sequences, FiniteSets, TLC

(***************************************************************************)
(* Bounds of the model                                                     *)
(***************************************************************************)
\* loop threads spawned by start() in one behaviour
MaxThreads == 2
\* events in the log after which the loops begin no further rotation (the
\* timed specification is bounded by its clock instead)
MaxLog == 1
\* largest number of minutes typed at a prompt of configure_interactive
MaxMinutes == 2
\* configure_interactive sessions in one behaviour
MaxSessions == 1
\* seconds the clock of the timed specification runs for
MaxClock == 70
\* longest duration, in seconds, of one change_mac_address call in the timed
\* specification
MaxCallSec == 1
\* longest interval, in seconds, drawn where random.randint is followed over
\* its whole range
MaxInterval == 65

(***************************************************************************)
(* Program constants                                                       *)
(***************************************************************************)
\* time.sleep(min(30, ...)) and elapsed += 30
PollSec == 30
\* self.scheduler_thread.join(timeout=5)
JoinTimeoutSec == 5
\* time.sleep(60) after an error in the loop
BackoffSec == 60
\* minutes * 60
SecPerMin == 60

(***************************************************************************)
(* Text: a string is a sequence of one-character strings                   *)
(***************************************************************************)
DecDigits == <<"0", "1", "2", "3", "4", "5", "6", "7", "8", "9">>

LowerHex == DecDigits \o <<"a", "b", "c", "d", "e", "f">>

UpperHex == DecDigits \o <<"A", "B", "C", "D", "E", "F">>

HexChars == {LowerHex[i] : i \in 1..16} \cup {UpperHex[i] : i \in 1..16}

IsDigit(c) == \E i \in 1..10 : DecDigits[i] = c

DigitVal(c) == (CHOOSE i \in 1..10 : DecDigits[i] = c) - 1

\* f"{n:x}": the octet without its leading zero
Hex02x_unpadded(n) ==
  IF n < 16 THEN <<LowerHex[n + 1]>>
  ELSE <<LowerHex[(n \div 16) + 1], LowerHex[(n % 16) + 1]>>

\* f"{n:02x}"
Hex02x(n) == <<LowerHex[(n \div 16) + 1], LowerHex[(n % 16) + 1]>>

\* sep.join(parts) for a sequence of texts
RECURSIVE Join(_, _)
Join(sep, parts) ==
  IF Len(parts) = 0 THEN <<>>
  ELSE IF Len(parts) = 1 THEN parts[1]
  ELSE parts[1] \o sep \o Join(sep, Tail(parts))

\* whether int(text) succeeds: an optional sign, then digits
Unsigned(text) ==
  IF Len(text) > 0 /\ text[1] \in {"-", "+"} THEN Tail(text) ELSE text

IsInt(text) ==
  /\ Len(Unsigned(text)) > 0
  /\ \A i \in 1..Len(Unsigned(text)) : IsDigit(Unsigned(text)[i])

RECURSIVE DigitsVal(_)
DigitsVal(digits) ==
  IF Len(digits) = 0 THEN 0
  ELSE 10 * DigitsVal(SubSeq(digits, 1, Len(digits) - 1))
       + DigitVal(digits[Len(digits)])

\* int(text), for a text int() accepts
IntVal(text) ==
  IF text[1] = "-" THEN 0 - DigitsVal(Unsigned(text))
  ELSE DigitsVal(Unsigned(text))

\* text.lower(), on the letters typed at the prompts
LowerChar(c) ==
  CASE c = "Y" -> "y" [] c = "N" -> "n" [] c = "E" -> "e" [] c = "S" -> "s"
    [] c = "O" -> "o" [] OTHER -> c

Lower(text) == [i \in 1..Len(text) |-> LowerChar(text[i])]

(***************************************************************************)
(* MACChanger: the address codec                                           *)
(***************************************************************************)
\* re.compile(r'^([0-9A-Fa-f]{2}[:-]){5}([0-9A-Fa-f]{2})$').match(mac): the
\* 17 characters, and Python's $ also matches before one final newline
validate_mac_address(mac) ==
  /\ Len(mac) \in {17, 18}
  /\ Len(mac) = 18 => mac[18] = "\n"
  /\ \A i \in 1..17 :
       IF i % 3 = 0 THEN mac[i] \in {":", "-"} ELSE mac[i] \in HexChars

\* the octets random.randint(0, 255) is sampled at
OctetTails == {<<171, 205, 239, 1, 255>>}

FirstBytes == {<<"0", "2">>, <<"0", "6">>, <<"0", "A">>, <<"0", "E">>}

\* ':'.join([first_byte] + [f"{octet:02x}" for the five octets of tail])
random_mac(first_byte, tail) ==
  Join(<<":">>, <<first_byte>> \o [i \in 1..5 |-> Hex02x(tail[i])])

\* the addresses generate_random_mac can return (with the sampled octets)
generate_random_mac ==
  {random_mac(fb, t) : fb \in FirstBytes, t \in OctetTails}

\* text.upper(), on the characters of an address
UpperChar(c) ==
  IF \E i \in 11..16 : LowerHex[i] = c
  THEN UpperHex[CHOOSE i \in 11..16 : LowerHex[i] = c]
  ELSE c

Upper(text) == [i \in 1..Len(text) |-> UpperChar(text[i])]

\* re.sub(r'[:-]', '', text)
RECURSIVE StripSeparators(_)
StripSeparators(text) ==
  IF Len(text) = 0 THEN <<>>
  ELSE IF text[1] \in {":", "-"} THEN StripSeparators(Tail(text))
  ELSE <<text[1]>> \o StripSeparators(Tail(text))

\* text[i:i+2] with i counted from 0: a slice stops at the end of the text
Slice2(text, i) ==
  SubSeq(text, i + 1, IF i + 2 <= Len(text) THEN i + 2 ELSE Len(text))

\* _normalize_mac whose pattern strips the colons and leaves the hyphens
normalize_mac_strips_colons(mac, separator) ==
  LET clean_mac == SelectSeq(Upper(mac), LAMBDA c : c # ":")
  IN Join(separator, [k \in 1..6 |-> Slice2(clean_mac, 2 * (k - 1))])

\* _normalize_mac(mac, separator)
normalize_mac(mac, separator) ==
  LET clean_mac == StripSeparators(Upper(mac))
  IN Join(separator, [k \in 1..6 |-> Slice2(clean_mac, 2 * (k - 1))])

(***************************************************************************)
(* Times of day                                                            *)
(***************************************************************************)
ValueError == <<"ValueError">>

\* the number a text of one or two digits stands for, -1 for any other text
Num2(s) ==
  IF Len(s) = 1 /\ IsDigit(s[1]) THEN DigitVal(s[1])
  ELSE IF Len(s) = 2 /\ IsDigit(s[1]) /\ IsDigit(s[2])
       THEN 10 * DigitVal(s[1]) + DigitVal(s[2])
  ELSE -1

\* datetime.strptime(text, "%H:%M").time(): <<hour, minute, second>>
strptime(text) ==
  LET colons == {i \in 1..Len(text) : text[i] = ":"} IN
  IF Cardinality(colons) # 1 THEN ValueError
  ELSE LET p == CHOOSE i \in colons : TRUE
           h == Num2(SubSeq(text, 1, p - 1))
           m == Num2(SubSeq(text, p + 1, Len(text)))
       IN IF h \in 0..23 /\ m \in 0..59 THEN <<h, m, 0>> ELSE ValueError

\* a <= b for two times of day
TimeLE(a, b) ==
  \/ a[1] < b[1]
  \/ a[1] = b[1] /\ a[2] < b[2]
  \/ a[1] = b[1] /\ a[2] = b[2] /\ a[3] <= b[3]

T0000 == <<"0", "0", ":", "0", "0">>

T2359 == <<"2", "3", ":", "5", "9">>

T2200 == <<"2", "2", ":", "0", "0">>

T0600 == <<"0", "6", ":", "0", "0">>

\* the values datetime.now().time() is sampled at
NowSamples == {<<10, 0, 0>>, <<23, 59, 30>>}

(***************************************************************************)
(* The operating system: the interfaces and their addresses                *)
(***************************************************************************)
IfNames == {"Wi-Fi", "eth0"}

\* no address: the interface is not among the enumerated ones
NoMac == <<>>

FactoryMac == <<"0", "0", ":", "E", "0", ":", "4", "C", ":", "B", "8", ":", "3", "8", ":", "2", "F">>

\* an entry of custom_mac_list in the hyphen form, and one that is no address
CustomMac == <<"0", "2", "-", "A", "1", "-", "B", "2", "-", "C", "3", "-", "D", "4", "-", "E", "5">>

BadMac == <<"0", "2", ":", "A", "1", ":", "B", "2">>

(***************************************************************************)
(* MACScheduler: the configuration and its file                            *)
(***************************************************************************)
ConfigKeys ==
  {"interface", "mode", "fixed_interval_minutes", "random_min_minutes",
   "random_max_minutes", "use_random_mac", "custom_mac_list", "enabled",
   "start_time", "end_time"}

default_config ==
  [interface |-> "Wi-Fi", mode |-> "random_time",
   fixed_interval_minutes |-> 30, random_min_minutes |-> 15,
   random_max_minutes |-> 60, use_random_mac |-> TRUE,
   custom_mac_list |-> <<>>, enabled |-> FALSE,
   start_time |-> T0000, end_time |-> T2359]

(***************************************************************************)
(* json.dump and json.load on the values of the configuration.  The        *)
(* interface and the mode are kept as whole names, the times and the       *)
(* addresses as sequences of characters.                                   *)
(***************************************************************************)
Quote == "\""

\* str(n) for an integer
RECURSIVE NatText(_)
NatText(n) ==
  IF n < 10 THEN <<DecDigits[n + 1]>>
  ELSE NatText(n \div 10) \o <<DecDigits[(n % 10) + 1]>>

IntText(n) == IF n < 0 THEN <<"-">> \o NatText(0 - n) ELSE NatText(n)

JsonTrue == <<"t", "r", "u", "e">>

JsonFalse == <<"f", "a", "l", "s", "e">>

\* the JSON type each recognized key is written with
NameKeys == {"interface", "mode"}

TextKeys == {"start_time", "end_time"}

IntKeys == {"fixed_interval_minutes", "random_min_minutes", "random_max_minutes"}

BoolKeys == {"use_random_mac", "enabled"}

ListKeys == {"custom_mac_list"}

\* the parts of text between the separators c
RECURSIVE Split(_, _)
Split(text, c) ==
  IF \A i \in 1..Len(text) : text[i] # c THEN <<text>>
  ELSE LET p == CHOOSE i \in 1..Len(text) :
                  text[i] = c /\ \A j \in 1..(i - 1) : text[j] # c
       IN <<SubSeq(text, 1, p - 1)>> \o Split(SubSeq(text, p + 1, Len(text)), c)

IsJsonString(text) ==
  /\ Len(text) >= 2
  /\ text[1] = Quote
  /\ text[Len(text)] = Quote
  /\ \A i \in 2..(Len(text) - 1) : text[i] # Quote

\* json.dumps that writes a boolean as str() does
json_dumps_python_bool(k, v) ==
  CASE k \in NameKeys -> <<Quote, v, Quote>>
    [] k \in TextKeys -> <<Quote>> \o v \o <<Quote>>
    [] k \in IntKeys -> IntText(v)
    [] k \in BoolKeys -> IF v THEN <<"T", "r", "u", "e">>
                                ELSE <<"F", "a", "l", "s", "e">>
    [] k \in ListKeys ->
         <<"[">> \o Join(<<",">>, [i \in 1..Len(v) |-> <<Quote>> \o v[i] \o <<Quote>>])
                 \o <<"]">>

\* json.dumps(v), for the value v of key k
json_dumps(k, v) ==
  CASE k \in NameKeys -> <<Quote, v, Quote>>
    [] k \in TextKeys -> <<Quote>> \o v \o <<Quote>>
    [] k \in IntKeys -> IntText(v)
    [] k \in BoolKeys -> IF v THEN JsonTrue ELSE JsonFalse
    [] k \in ListKeys ->
         <<"[">> \o Join(<<",">>, [i \in 1..Len(v) |-> <<Quote>> \o v[i] \o <<Quote>>])
                 \o <<"]">>

\* the items of a JSON array of strings, <<>> for []
JsonItems(text) ==
  IF Len(text) = 2 THEN <<>> ELSE Split(SubSeq(text, 2, Len(text) - 1), ",")

\* whether json.loads accepts text as the value of key k
json_valid(k, text) ==
  CASE k \in NameKeys \cup TextKeys -> IsJsonString(text)
    [] k \in IntKeys -> IsInt(text) /\ text[1] # "+"
    [] k \in BoolKeys -> text \in {JsonTrue, JsonFalse}
    [] k \in ListKeys ->
         /\ Len(text) >= 2
         /\ text[1] = "["
         /\ text[Len(text)] = "]"
         /\ \A i \in 1..Len(JsonItems(text)) : IsJsonString(JsonItems(text)[i])

\* json.loads(text), for a text it accepts
json_loads(k, text) ==
  CASE k \in NameKeys -> text[2]
    [] k \in TextKeys -> SubSeq(text, 2, Len(text) - 1)
    [] k \in IntKeys -> IntVal(text)
    [] k \in BoolKeys -> text = JsonTrue
    [] k \in ListKeys ->
         [i \in 1..Len(JsonItems(text)) |->
            SubSeq(JsonItems(text)[i], 2, Len(JsonItems(text)[i]) - 1)]

\* the configuration file.  kind tells what a reader finds: no file
\* ("absent"), a file that cannot be opened or read ("unreadable"), a text
\* that is no JSON document, such as a file cut off or still empty
\* ("malformed"), a JSON document that is no object ("not_object"), or a
\* JSON object ("json"); present are the keys the text holds and data the
\* text of their values
NoFile == [kind |-> "absent", present |-> {}, data |-> <<>>]

FileOf(kind, keys, cfg) ==
  [kind |-> kind, present |-> keys,
   data |-> [k \in keys |-> json_dumps(k, cfg[k])]]

JsonFile(keys, cfg) == FileOf("json", keys, cfg)

\* open(self.config_file, 'w') has emptied the file
EmptyFile == [kind |-> "malformed", present |-> {}, data |-> <<>>]

\* whether load_config ends in its except clause, which logs the error
load_config_fails(f) ==
  \/ f.kind \in {"unreadable", "malformed", "not_object"}
  \/ f.kind = "json" /\ \E k \in f.present : ~json_valid(k, f.data[k])

\* load_config that returns the defaults whatever the file holds
load_config_ignores_file(f) == default_config

\* load_config that takes what it can from a file it could not parse
load_config_reads_damaged(f) ==
  [k \in ConfigKeys |->
     IF k \in f.present /\ json_valid(k, f.data[k])
     THEN json_loads(k, f.data[k]) ELSE default_config[k]]

\* load_config: the file's values over the defaults, the defaults alone when
\* there is no file or it cannot be read or parsed
load_config(f) ==
  IF f.kind = "json" /\ ~load_config_fails(f)
  THEN [k \in ConfigKeys |->
          IF k \in f.present THEN json_loads(k, f.data[k]) ELSE default_config[k]]
  ELSE default_config

\* whether is_within_schedule raises: a time of the configuration that
\* strptime does not parse
schedule_raises(cfg) ==
  strptime(cfg.start_time) = ValueError \/ strptime(cfg.end_time) = ValueError

\* is_within_schedule that takes every window for an overnight one
is_within_schedule_always_wraps(cfg, now) ==
  \/ TimeLE(strptime(cfg.start_time), now)
  \/ TimeLE(now, strptime(cfg.end_time))

\* is_within_schedule with the end of the window left out of it
is_within_schedule_open_end(cfg, now) ==
  LET start_time == strptime(cfg.start_time)
      end_time == strptime(cfg.end_time)
  IN IF TimeLE(start_time, end_time)
     THEN TimeLE(start_time, now) /\ TimeLE(now, end_time) /\ now # end_time
     ELSE (TimeLE(now, end_time) /\ now # end_time) \/ TimeLE(start_time, now)

\* is_within_schedule, with now the value of datetime.now().time()
is_within_schedule(cfg, now) ==
  LET start_time == strptime(cfg.start_time)
      end_time == strptime(cfg.end_time)
  IN IF TimeLE(start_time, end_time)
     THEN TimeLE(start_time, now) /\ TimeLE(now, end_time)
     ELSE TimeLE(now, end_time) \/ TimeLE(start_time, now)

\* get_next_mac that takes the custom list whenever it has an entry
get_next_mac_prefers_list(cfg) ==
  IF Len(cfg.custom_mac_list) > 0
  THEN {cfg.custom_mac_list[i] : i \in 1..Len(cfg.custom_mac_list)}
  ELSE generate_random_mac

\* the addresses get_next_mac can return
get_next_mac(cfg) ==
  IF cfg.use_random_mac THEN generate_random_mac
  ELSE IF Len(cfg.custom_mac_list) > 0
       THEN {cfg.custom_mac_list[i] : i \in 1..Len(cfg.custom_mac_list)}
  ELSE generate_random_mac

\* the values random.randint(lo, hi) is sampled at: both ends and the second
\* after the low end; empty when lo > hi, where randint raises ValueError
randint(lo, hi) == {x \in {lo, lo + 1, hi} : lo <= x /\ x <= hi}

\* calculate_next_interval that returns minutes
calculate_next_interval_in_minutes(cfg) ==
  IF cfg.mode = "fixed_interval"
  THEN {cfg.fixed_interval_minutes}
  ELSE randint(cfg.random_min_minutes, cfg.random_max_minutes)

\* the values calculate_next_interval can return; none when it raises
calculate_next_interval(cfg) ==
  IF cfg.mode = "fixed_interval"
  THEN {cfg.fixed_interval_minutes * SecPerMin}
  ELSE randint(cfg.random_min_minutes * SecPerMin,
               cfg.random_max_minutes * SecPerMin)

(***************************************************************************)
(* The state                                                               *)
(***************************************************************************)
VARIABLES
  is_admin,          \* MACChanger.is_admin
  os_mac,            \* the operating system: interface name -> address or NoMac
  is_running,        \* MACScheduler.is_running
  scheduler_thread,  \* MACScheduler.scheduler_thread: 0 (None) or a thread of thr
  config,            \* MACScheduler.config
  file,              \* the content of mac_scheduler_config.json
  log,               \* the events written to the log: the outcomes of the
                     \* rotations, and the failures to load or save the file
  thr,               \* the loop threads start() has spawned, in spawn order
  ctl,               \* the control thread: where it is in stop / configure
  ret,               \* the operation the control thread last ran and its result
  stop_in_wait,      \* history: the live loops that stop() found in their wait
  clock,             \* seconds since the loop started (timed specification)
  stop_at,           \* history: the clock when stop() was last called
  peer,              \* what load_config returned in a second process: <<>>
                     \* before it ran, else the one configuration it returned
  call               \* the last direct call of a method of the scheduler:
                     \* <<>> before any, else <<name, arguments, result>>

vars ==
  <<is_admin, os_mac, is_running, scheduler_thread, config, file, log, thr,
    ctl, ret, stop_in_wait, clock, stop_at, peer, call>>

Threads == 1..Len(thr)

\* no time of day read yet
NoTime == <<>>

\* a loop thread: where it is in scheduler_loop and its locals; logged_at
\* and cut are history: the clock when the loop last wrote an event to the
\* log (-1 before it has), and whether the loop has left the wait of the
\* iteration before the interval was over, which is forgotten when the next
\* iteration begins
NewThread ==
  [pc |-> "loop", now |-> NoTime, interface |-> "", new_mac |-> NoMac, next_interval |-> 0, elapsed |-> 0,
   timer |-> 0, logged_at |-> -1, cut |-> FALSE]

Alive(t) == thr[t].pc # "done"

\* the loops that are inside change_mac_scheduled's controller calls
InFlight == {t \in Threads : thr[t].pc = "call"}

\* the control thread outside stop() and configure_interactive(); sessions
\* counts the configure_interactive calls so far.  rejected tells that the
\* last answer typed was refused and answer is that answer; before and seen
\* are history: the
\* configuration as the running configure_interactive found it, and the
\* partly edited configurations a loop has read since; saving_over is
\* history too: the file as the running save_config found it
IdleCtl(sessions) ==
  [pc |-> "idle", join_left |-> 0, sessions |-> sessions, rejected |-> FALSE,
   answer |-> <<>>, before |-> default_config, seen |-> {},
   saving_over |-> NoFile]

InConfigure == ctl.pc \notin {"idle", "joining"}

\* history: a loop reads the configuration
Observe ==
  IF InConfigure /\ config # ctl.before
  THEN [ctl EXCEPT !.seen = @ \cup {config}]
  ELSE ctl

(***************************************************************************)
(* Construction: MACChanger(), then MACScheduler(mac_changer)              *)
(***************************************************************************)
\* configuration files a process can find at start: none; a one-minute
\* fixed interval with a custom address list and an overnight window; and a
\* hand-edited file whose random range is empty
FixedCustomFile ==
  JsonFile({"enabled", "mode", "fixed_interval_minutes", "use_random_mac",
            "custom_mac_list", "start_time", "end_time"},
           [default_config EXCEPT !.enabled = TRUE, !.mode = "fixed_interval",
                                  !.fixed_interval_minutes = 1,
                                  !.use_random_mac = FALSE,
                                  !.custom_mac_list = <<CustomMac, BadMac>>,
                                  !.start_time = T2200, !.end_time = T0600])

EmptyRangeFile ==
  JsonFile({"enabled", "random_min_minutes", "random_max_minutes",
            "use_random_mac", "custom_mac_list"},
           [default_config EXCEPT !.enabled = TRUE, !.random_min_minutes = 2,
                                  !.random_max_minutes = 1,
                                  !.use_random_mac = FALSE,
                                  !.custom_mac_list = <<CustomMac>>])

InitFiles == {NoFile, FixedCustomFile, EmptyRangeFile}

\* for the timed specification: a one-minute fixed interval with random
\* addresses, the file whose random range is empty, and one whose window
\* cannot be parsed
FixedRandomFile ==
  JsonFile({"enabled", "mode", "fixed_interval_minutes"},
           [default_config EXCEPT !.enabled = TRUE, !.mode = "fixed_interval",
                                  !.fixed_interval_minutes = 1])

\* a hand-edited file whose start_time is no time of day
BadTimeFile ==
  JsonFile({"enabled", "start_time"},
           [default_config EXCEPT !.enabled = TRUE,
                                  !.start_time = <<"2", "5", ":", "0", "0">>])

TimedFiles == {FixedRandomFile, EmptyRangeFile, BadTimeFile}

\* for the specification of configure_interactive: a valid configuration
\* with a random range of one minute
SmallRangeFile ==
  JsonFile(ConfigKeys,
           [default_config EXCEPT !.enabled = TRUE,
                                  !.fixed_interval_minutes = 1,
                                  !.random_min_minutes = 1,
                                  !.random_max_minutes = 1,
                                  !.use_random_mac = FALSE,
                                  !.custom_mac_list = <<CustomMac>>])

ConfigFiles == {SmallRangeFile}

\* the interfaces the operating system can have
InitOs ==
  {[i \in IfNames |-> FactoryMac],
   [i \in IfNames |-> IF i = "eth0" THEN FactoryMac ELSE NoMac]}

\* a construction that takes the run state from the enabled flag of the file
InitWith_resumes(files) ==
  /\ is_admin \in BOOLEAN
  /\ os_mac \in InitOs
  /\ scheduler_thread = 0
  /\ file \in files
  /\ config = load_config(file)
  /\ is_running = config.enabled
  /\ log = IF load_config_fails(file) THEN <<"load_failed">> ELSE <<>>
  /\ thr = <<>>
  /\ ctl = IdleCtl(0)
  /\ ret = [op |-> "init", val |-> "None"]
  /\ stop_in_wait = {}
  /\ clock = 0
  /\ stop_at = 0
  /\ peer = <<>>
  /\ call = <<>>

\* MACChanger() and MACScheduler(mac_changer) on one of the files
InitWith(files) ==
  /\ is_admin \in BOOLEAN
  /\ os_mac \in InitOs
  /\ is_running = FALSE
  /\ scheduler_thread = 0
  /\ file \in files
  /\ config = load_config(file)
  /\ log = IF load_config_fails(file) THEN <<"load_failed">> ELSE <<>>
  /\ thr = <<>>
  /\ ctl = IdleCtl(0)
  /\ ret = [op |-> "init", val |-> "None"]
  /\ stop_in_wait = {}
  /\ clock = 0
  /\ stop_at = 0
  /\ peer = <<>>
  /\ call = <<>>

Init == InitWith(InitFiles)

(***************************************************************************)
(* MACChanger: the controller                                              *)
(***************************************************************************)
\* the names get_network_interfaces returns
get_network_interfaces == {i \in IfNames : os_mac[i] # NoMac}

\* how the method of the operating system can end (_change_mac_windows,
\* _change_mac_linux, _change_mac_macos): it returns True, it returns False,
\* or an exception leaves it, such as the FileNotFoundError of a missing ip
\* command; it cannot succeed on an interface the system does not have
os_change(interface) ==
  IF os_mac[interface] = NoMac THEN {"False", "raised"}
  ELSE {"True", "False", "raised"}

\* change_mac_address without its two checks
change_mac_address_runs_unchecked(interface, new_mac) ==
  {[result |-> outcome = "True", issued |-> TRUE, outcome |-> outcome] :
     outcome \in os_change(interface)}

\* the runs of change_mac_address: what it returns, whether it got as far as
\* the commands of the operating system, and how their method ended
change_mac_address_runs(interface, new_mac) ==
  IF ~validate_mac_address(new_mac) \/ ~is_admin
  THEN {[result |-> FALSE, issued |-> FALSE, outcome |-> "none"]}
  ELSE {[result |-> outcome = "True", issued |-> TRUE, outcome |-> outcome] :
          outcome \in os_change(interface)}

\* the results change_mac_address can return: False before any command for
\* an invalid address or without the rights; otherwise what the commands of
\* the operating system give, which fail for an interface it does not have
change_mac_address(interface, new_mac) ==
  {run.result : run \in change_mac_address_runs(interface, new_mac)}

(***************************************************************************)
(* MACScheduler.scheduler_loop, one action per step of a loop thread       *)
(***************************************************************************)
\* while self.is_running: the loop goes on or the thread ends
loop_while(t) ==
  /\ thr[t].pc = "loop"
  /\ IF is_running
     THEN thr' = [thr EXCEPT ![t].pc = "rotate", ![t].cut = FALSE]
     ELSE thr' = [thr EXCEPT ![t] = [NewThread EXCEPT !.pc = "done"]]
  /\ stop_in_wait' = stop_in_wait \ {u \in {t} : ~is_running}
  /\ UNCHANGED <<is_admin, os_mac, is_running, scheduler_thread, config, file,
                 log, ctl, ret, clock, stop_at, peer, call>>

\* change_mac_scheduled up to the controller calls: the schedule check, the
\* interface and the address chosen; an unparsable time raises into the
\* loop's except clause, which logs and sleeps the backoff
change_mac_scheduled(t) ==
  /\ thr[t].pc = "rotate"
  /\ \E now \in NowSamples :
       IF schedule_raises(config)
       THEN /\ log' = Append(log, "error")
            /\ thr' = [thr EXCEPT ![t].pc = "backoff", ![t].timer = BackoffSec,
                                    ![t].logged_at = clock]
       ELSE IF ~is_within_schedule(config, now)
       THEN /\ log' = Append(log, "skipped")
            /\ thr' = [thr EXCEPT ![t].pc = "interval", ![t].now = now,
                                    ![t].logged_at = clock]
       ELSE /\ \E mac \in get_next_mac(config) :
                 thr' = [thr EXCEPT ![t].pc = "call", ![t].now = now,
                                    ![t].interface = config.interface,
                                    ![t].new_mac = mac,
                                    ![t].timer = MaxCallSec]
            /\ log' = log
  /\ ctl' = Observe
  /\ UNCHANGED <<is_admin, os_mac, is_running, scheduler_thread, config, file,
                 ret, stop_in_wait, clock, stop_at, peer, call>>

\* get_current_mac and change_mac_address return; the outcome is logged
change_mac_returns(t) ==
  /\ thr[t].pc = "call"
  /\ \E success \in change_mac_address(thr[t].interface, thr[t].new_mac) :
       /\ log' = Append(log, IF success THEN "success" ELSE "failure")
       /\ thr' = [thr EXCEPT ![t].pc = "interval", ![t].now = NoTime,
                               ![t].interface = "", ![t].new_mac = NoMac,
                               ![t].timer = 0,
                               ![t].logged_at = clock]
       /\ os_mac' = IF success
                    THEN [os_mac EXCEPT ![thr[t].interface] = thr[t].new_mac]
                    ELSE os_mac
  /\ UNCHANGED <<is_admin, is_running, scheduler_thread, config, file, ctl,
                 ret, stop_in_wait, clock, stop_at, peer, call>>

\* next_interval = self.calculate_next_interval(); elapsed = 0, with
\* intervals the values the call can return; an empty range raises into the
\* except clause
next_interval_from(t, intervals) ==
  /\ thr[t].pc = "interval"
  /\ IF intervals = {}
     THEN /\ log' = Append(log, "error")
          /\ thr' = [thr EXCEPT ![t].pc = "backoff", ![t].now = NoTime,
                                 ![t].timer = BackoffSec,
                                 ![t].logged_at = clock]
     ELSE /\ \E n \in intervals :
               thr' = [thr EXCEPT ![t].pc = "wait", ![t].now = NoTime,
                                  ![t].next_interval = n, ![t].elapsed = 0,
                                  ![t].cut = FALSE]
          /\ log' = log
  /\ ctl' = Observe
  /\ UNCHANGED <<is_admin, os_mac, is_running, scheduler_thread, config, file,
                 ret, stop_in_wait, clock, stop_at, peer, call>>

\* the interval step with random.randint sampled at its ends
next_interval_step(t) == next_interval_from(t, calculate_next_interval(config))

\* the wait sleeping a whole chunk every time, whatever is left of the
\* interval
wait_while_sleeps_whole_chunk(t) ==
  /\ thr[t].pc = "wait"
  /\ IF thr[t].elapsed < thr[t].next_interval /\ is_running
     THEN thr' = [thr EXCEPT ![t].pc = "sleep", ![t].timer = PollSec]
     ELSE thr' = [thr EXCEPT ![t].pc = "loop", ![t].next_interval = 0,
                             ![t].elapsed = 0,
                             ![t].cut = thr[t].elapsed < thr[t].next_interval]
  /\ UNCHANGED <<is_admin, os_mac, is_running, scheduler_thread, config, file,
                 log, ctl, ret, stop_in_wait, clock, stop_at, peer, call>>

\* while elapsed < next_interval and self.is_running: sleep one more chunk,
\* or leave the wait
wait_while(t) ==
  /\ thr[t].pc = "wait"
  /\ IF thr[t].elapsed < thr[t].next_interval /\ is_running
     THEN thr' = [thr EXCEPT
                    ![t].pc = "sleep",
                    ![t].timer =
                      IF PollSec < thr[t].next_interval - thr[t].elapsed
                      THEN PollSec
                      ELSE thr[t].next_interval - thr[t].elapsed]
     ELSE thr' = [thr EXCEPT ![t].pc = "loop", ![t].next_interval = 0,
                             ![t].elapsed = 0,
                             ![t].cut = thr[t].elapsed < thr[t].next_interval]
  /\ UNCHANGED <<is_admin, os_mac, is_running, scheduler_thread, config, file,
                 log, ctl, ret, stop_in_wait, clock, stop_at, peer, call>>

\* the sleep returning with elapsed advanced by a minute, not by the 30
\* seconds of a chunk
sleep_returns_adds_minute(t) ==
  /\ thr[t].pc = "sleep"
  /\ thr' = [thr EXCEPT ![t].pc = "wait", ![t].elapsed = @ + SecPerMin,
                          ![t].timer = 0]
  /\ UNCHANGED <<is_admin, os_mac, is_running, scheduler_thread, config, file,
                 log, ctl, ret, stop_in_wait, clock, stop_at, peer, call>>

\* the sleep returning with elapsed left as it was
sleep_returns_keeps_elapsed(t) ==
  /\ thr[t].pc = "sleep"
  /\ thr' = [thr EXCEPT ![t].pc = "wait", ![t].timer = 0]
  /\ UNCHANGED <<is_admin, os_mac, is_running, scheduler_thread, config, file,
                 log, ctl, ret, stop_in_wait, clock, stop_at, peer, call>>

\* time.sleep(min(30, next_interval - elapsed)) returns; elapsed += 30
sleep_returns(t) ==
  /\ thr[t].pc = "sleep"
  /\ thr' = [thr EXCEPT ![t].pc = "wait", ![t].elapsed = @ + PollSec,
                          ![t].timer = 0]
  /\ UNCHANGED <<is_admin, os_mac, is_running, scheduler_thread, config, file,
                 log, ctl, ret, stop_in_wait, clock, stop_at, peer, call>>

\* an except clause that lets the loop end after its sleep
backoff_returns_ends_loop(t) ==
  /\ thr[t].pc = "backoff"
  /\ thr' = [thr EXCEPT ![t] = [NewThread EXCEPT !.pc = "done"]]
  /\ UNCHANGED <<is_admin, os_mac, is_running, scheduler_thread, config, file,
                 log, ctl, ret, stop_in_wait, clock, stop_at, peer, call>>

\* time.sleep(60) of the except clause returns
backoff_returns(t) ==
  /\ thr[t].pc = "backoff"
  /\ thr' = [thr EXCEPT ![t].pc = "loop", ![t].timer = 0]
  /\ UNCHANGED <<is_admin, os_mac, is_running, scheduler_thread, config, file,
                 log, ctl, ret, stop_in_wait, clock, stop_at, peer, call>>

(***************************************************************************)
(* MACScheduler.start, stop and status, run by the control thread          *)
(***************************************************************************)
\* start() without its check of the run flag
start_ok_ignores_running ==
  /\ config.enabled
  /\ is_admin
  /\ config.interface \in get_network_interfaces

\* start() without its check of config["enabled"]
start_ok_ignores_enabled ==
  /\ ~is_running
  /\ is_admin
  /\ config.interface \in get_network_interfaces

\* the conditions under which start() starts the loop
start_ok ==
  /\ ~is_running
  /\ config.enabled
  /\ is_admin
  /\ config.interface \in get_network_interfaces

start ==
  /\ ctl.pc = "idle"
  /\ start_ok => Len(thr) < MaxThreads
  /\ IF start_ok
     THEN /\ is_running' = TRUE
          /\ thr' = Append(thr, NewThread)
          /\ scheduler_thread' = Len(thr) + 1
          /\ ret' = [op |-> "start", val |-> "True"]
     ELSE /\ ret' = [op |-> "start", val |-> "False"]
          /\ UNCHANGED <<is_running, thr, scheduler_thread>>
  /\ UNCHANGED <<is_admin, os_mac, config, file, log, ctl, stop_in_wait,
                 clock, stop_at, peer, call>>

\* stop() that reports success when there was nothing to stop
stop_reports_stopped ==
  /\ ctl.pc = "idle"
  /\ IF ~is_running
     THEN /\ ret' = [op |-> "stop", val |-> "True"]
          /\ UNCHANGED <<is_running, ctl, stop_in_wait, stop_at>>
     ELSE /\ is_running' = FALSE
          /\ stop_in_wait' =
               stop_in_wait \cup {t \in Threads : thr[t].pc \in {"wait", "sleep"}}
          /\ stop_at' = clock
          /\ ret' = [op |-> "stop", val |-> "pending"]
          /\ ctl' = [ctl EXCEPT !.pc = "joining", !.join_left = JoinTimeoutSec]
  /\ UNCHANGED <<is_admin, os_mac, scheduler_thread, config, file, log, thr,
                 clock, peer, call>>

\* stop() up to the join: False when not running, else the flag is cleared
\* and the caller joins the loop thread for at most 5 seconds
stop ==
  /\ ctl.pc = "idle"
  /\ IF ~is_running
     THEN /\ ret' = [op |-> "stop", val |-> "False"]
          /\ UNCHANGED <<is_running, ctl, stop_in_wait, stop_at>>
     ELSE /\ is_running' = FALSE
          /\ stop_in_wait' =
               stop_in_wait \cup {t \in Threads : thr[t].pc \in {"wait", "sleep"}}
          /\ stop_at' = clock
          /\ ret' = [op |-> "stop", val |-> "pending"]
          /\ ctl' = [ctl EXCEPT !.pc = "joining", !.join_left = JoinTimeoutSec]
  /\ UNCHANGED <<is_admin, os_mac, scheduler_thread, config, file, log, thr,
                 clock, peer, call>>

\* the join returns because the loop thread has ended
stop_joined ==
  /\ ctl.pc = "joining"
  /\ ~Alive(scheduler_thread)
  /\ ctl' = IdleCtl(ctl.sessions)
  /\ ret' = [op |-> "stop", val |-> "True"]
  /\ UNCHANGED <<is_admin, os_mac, is_running, scheduler_thread, config, file,
                 log, thr, stop_in_wait, clock, stop_at, peer, call>>

\* the join returns because its 5 seconds are over
stop_timed_out ==
  /\ ctl.pc = "joining"
  /\ ctl.join_left = 0
  /\ Alive(scheduler_thread)
  /\ ctl' = IdleCtl(ctl.sessions)
  /\ ret' = [op |-> "stop", val |-> "True"]
  /\ UNCHANGED <<is_admin, os_mac, is_running, scheduler_thread, config, file,
                 log, thr, stop_in_wait, clock, stop_at, peer, call>>

\* a status() that clears the run flag it reports
status_clears_flag ==
  /\ ctl.pc = "idle"
  /\ ret' = [op |-> "status", val |-> "None"]
  /\ is_running' = FALSE
  /\ UNCHANGED <<is_admin, os_mac, scheduler_thread, config, file, log,
                 thr, ctl, stop_in_wait, clock, stop_at, peer, call>>

\* status() prints the flag and the configuration, and returns None
status ==
  /\ ctl.pc = "idle"
  /\ ret' = [op |-> "status", val |-> "None"]
  /\ UNCHANGED <<is_admin, os_mac, is_running, scheduler_thread, config, file,
                 log, thr, ctl, stop_in_wait, clock, stop_at, peer, call>>

(***************************************************************************)
(* The passing of time                                                     *)
(***************************************************************************)
\* Without a clock: the 5 seconds of the join pass while the joined loop is
\* in a sleep that lasts longer (timer holds the length of the sleep), or in
\* a controller call, which has no timeout
join_elapse ==
  /\ ctl.pc = "joining"
  /\ ctl.join_left > 0
  /\ \/ thr[scheduler_thread].pc = "call"
     \/ /\ thr[scheduler_thread].pc \in {"sleep", "backoff"}
        /\ thr[scheduler_thread].timer > ctl.join_left
  /\ ctl' = [ctl EXCEPT !.join_left = 0]
  /\ UNCHANGED <<is_admin, os_mac, is_running, scheduler_thread, config, file,
                 log, thr, ret, stop_in_wait, clock, stop_at, peer, call>>

Next ==
  \/ start
  \/ stop
  \/ stop_joined
  \/ stop_timed_out
  \/ join_elapse
  \/ \E t \in Threads : loop_while(t)
  \/ \E t \in Threads : Len(log) < MaxLog /\ change_mac_scheduled(t)
  \/ \E t \in Threads : change_mac_returns(t)
  \/ \E t \in Threads : next_interval_step(t)
  \/ \E t \in Threads : wait_while(t)
  \/ \E t \in Threads : sleep_returns(t)
  \/ \E t \in Threads : backoff_returns(t)

Spec == Init /\ [][Next]_vars

(***************************************************************************)
(* The timed specification: one start(), and a clock in seconds.  The      *)
(* steps of a loop take no time; a sleep takes its length, a controller    *)
(* call at most MaxCallSec seconds, the join at most 5 seconds.            *)
(***************************************************************************)
\* a loop that has a step to take before time passes
Urgent(t) ==
  \/ thr[t].pc \in {"loop", "rotate", "interval", "wait"}
  \/ thr[t].pc \in {"call", "sleep", "backoff"} /\ thr[t].timer = 0

\* one second passes; the clock runs while a loop is alive
tick ==
  /\ clock < MaxClock
  /\ \E t \in Threads : Alive(t)
  /\ \A t \in Threads : ~Urgent(t)
  /\ ctl.pc = "joining" => ctl.join_left > 0 /\ Alive(scheduler_thread)
  /\ clock' = clock + 1
  /\ thr' = [t \in Threads |->
               IF thr[t].timer > 0 THEN [thr[t] EXCEPT !.timer = @ - 1]
               ELSE thr[t]]
  /\ ctl' = IF ctl.pc = "joining" THEN [ctl EXCEPT !.join_left = @ - 1] ELSE ctl
  /\ UNCHANGED <<is_admin, os_mac, is_running, scheduler_thread, config, file,
                 log, ret, stop_in_wait, stop_at, peer, call>>

InitTimed == InitWith(TimedFiles)

NextTimed ==
  \/ (start_ok => thr = <<>>) /\ start
  \/ stop
  \/ status
  \/ stop_joined
  \/ stop_timed_out
  \/ tick
  \/ \E t \in Threads : loop_while(t)
  \/ \E t \in Threads : change_mac_scheduled(t)
  \/ \E t \in Threads : change_mac_returns(t)
  \/ \E t \in Threads : next_interval_step(t)
  \/ \E t \in Threads : wait_while(t)
  \/ \E t \in Threads : thr[t].timer = 0 /\ sleep_returns(t)
  \/ \E t \in Threads : thr[t].timer = 0 /\ backoff_returns(t)

SpecTimed == InitTimed /\ [][NextTimed]_vars

(***************************************************************************)
(* The loop without end: one start() and no stop(), every step of the loop *)
(* taken in the end (a sleep is over, a controller call returns).  Of the  *)
(* log file the last MaxLog events are followed.                           *)
(***************************************************************************)
\* the events before the last MaxLog ones leave the view
log_window ==
  /\ Len(log) >= MaxLog
  /\ log' = <<>>
  /\ UNCHANGED <<is_admin, os_mac, is_running, scheduler_thread, config, file,
                 thr, ctl, ret, stop_in_wait, clock, stop_at, peer, call>>

\* the step loop t takes next, wherever it is in scheduler_loop
loop_step(t) ==
  /\ t \in Threads
  /\ \/ loop_while(t)
     \/ Len(log) < MaxLog /\ change_mac_scheduled(t)
     \/ change_mac_returns(t)
     \/ next_interval_step(t)
     \/ wait_while(t)
     \/ sleep_returns(t)
     \/ backoff_returns(t)

LiveFiles == InitFiles \cup {BadTimeFile}

InitLive == InitWith(LiveFiles)

NextLive ==
  \/ (start_ok => thr = <<>>) /\ start
  \/ log_window
  \/ \E t \in Threads : loop_step(t)

SpecLive ==
  /\ InitLive
  /\ [][NextLive]_vars
  /\ WF_vars(log_window)
  /\ \A t \in 1..MaxThreads : WF_vars(loop_step(t))

(***************************************************************************)
(* The loops without end under start() and stop() in any order: the        *)
(* actions of Spec, every step of every loop taken in the end.             *)
(***************************************************************************)
NextRestart ==
  \/ start
  \/ stop
  \/ stop_joined
  \/ stop_timed_out
  \/ join_elapse
  \/ log_window
  \/ \E t \in Threads : loop_step(t)

SpecRestart ==
  /\ Init
  /\ [][NextRestart]_vars
  /\ WF_vars(log_window)
  /\ \A t \in 1..MaxThreads : WF_vars(loop_step(t))

(***************************************************************************)
(* The chunked wait on every interval: a timed run with one start() on a   *)
(* random range that begins at zero minutes, random.randint followed over  *)
(* its whole range up to MaxInterval seconds, and stop() at any moment.    *)
(* The loop is followed through its first iteration and the wait after it. *)
(***************************************************************************)
\* a hand-edited file whose random range is zero to two minutes
WideRangeFile ==
  JsonFile({"enabled", "random_min_minutes", "random_max_minutes",
            "use_random_mac", "custom_mac_list"},
           [default_config EXCEPT !.enabled = TRUE, !.random_min_minutes = 0,
                                  !.random_max_minutes = 2,
                                  !.use_random_mac = FALSE,
                                  !.custom_mac_list = <<CustomMac>>])

\* random.randint(lo, hi): every integer of the range
random_randint(lo, hi) == lo..hi

\* calculate_next_interval over the whole range of random.randint, up to
\* MaxInterval seconds
calculate_next_interval_whole(cfg) ==
  {n \in (IF cfg.mode = "fixed_interval"
          THEN {cfg.fixed_interval_minutes * SecPerMin}
          ELSE random_randint(cfg.random_min_minutes * SecPerMin,
                              cfg.random_max_minutes * SecPerMin)) :
     n <= MaxInterval}

InitWait == InitWith({WideRangeFile})

NextWait ==
  \/ (start_ok => thr = <<>>) /\ start
  \/ stop
  \/ stop_joined
  \/ stop_timed_out
  \/ tick
  \/ \E t \in Threads : loop_while(t)
  \/ \E t \in Threads : thr[t].logged_at < 0 /\ change_mac_scheduled(t)
  \/ \E t \in Threads : change_mac_returns(t)
  \/ \E t \in Threads :
       next_interval_from(t, calculate_next_interval_whole(config))
  \/ \E t \in Threads : wait_while(t)
  \/ \E t \in Threads : thr[t].timer = 0 /\ sleep_returns(t)

SpecWait == InitWait /\ [][NextWait]_vars

(***************************************************************************)
(* MACScheduler.configure_interactive, one action per prompt: the control  *)
(* thread blocks in input() between them                                   *)
(***************************************************************************)
\* what the user can type at a prompt that expects a number
NumberAnswers ==
  {<<>>, <<"x">>, <<"-", "1">>} \cup {<<DecDigits[n + 1]>> : n \in 0..MaxMinutes}

BadTime == <<"2", "5", ":", "0", "0">>

StartAnswers == {<<>>, T2200, BadTime}

EndAnswers == {<<>>, T0600, BadTime}

EnabledAnswers == {<<>>, <<"y">>, <<"N", "o">>, <<"q">>}

\* list(interfaces.keys())
InterfaceList ==
  SelectSeq(<<"Wi-Fi", "eth0">>, LAMBDA i : i \in get_network_interfaces)

modes == <<"fixed_interval", "random_time">>

\* the prompt is left: the next one is shown
Goto(pc) == [ctl EXCEPT !.pc = pc, !.rejected = FALSE, !.answer = <<>>]

\* the answer is refused with a message and the same prompt is shown again
Refuse(text) == [ctl EXCEPT !.rejected = TRUE, !.answer = text]

\* configure_interactive is called: the interfaces are listed
configure_interactive ==
  /\ ctl.pc = "idle"
  /\ ctl.sessions < MaxSessions
  /\ ctl' = [ctl EXCEPT !.pc = "cfg_interface", !.sessions = @ + 1,
                        !.before = config]
  /\ UNCHANGED <<is_admin, os_mac, is_running, scheduler_thread, config, file,
                 log, thr, ret, stop_in_wait, clock, stop_at, peer, call>>

\* Select interface [1-n] or press Enter to keep current
prompt_interface ==
  /\ ctl.pc = "cfg_interface"
  /\ \E choice \in NumberAnswers :
       IF choice = <<>> THEN config' = config /\ ctl' = Goto("cfg_mode")
       ELSE IF ~IsInt(choice) THEN config' = config /\ ctl' = Refuse(choice)
       ELSE IF 0 <= IntVal(choice) - 1 /\ IntVal(choice) - 1 < Len(InterfaceList)
       THEN /\ config' = [config EXCEPT !.interface = InterfaceList[IntVal(choice)]]
            /\ ctl' = Goto("cfg_mode")
       ELSE config' = config /\ ctl' = Refuse(choice)
  /\ UNCHANGED <<is_admin, os_mac, is_running, scheduler_thread, file, log,
                 thr, ret, stop_in_wait, clock, stop_at, peer, call>>

\* Select mode [1-2] or press Enter to keep current; the mode then decides
\* which interval is asked for
prompt_mode ==
  /\ ctl.pc = "cfg_mode"
  /\ \E choice \in NumberAnswers :
       LET after(cfg) ==
             Goto(IF cfg.mode = "fixed_interval" THEN "cfg_fixed" ELSE "cfg_min")
       IN IF choice = <<>> THEN config' = config /\ ctl' = after(config)
          ELSE IF ~IsInt(choice) THEN config' = config /\ ctl' = Refuse(choice)
          ELSE IF 0 <= IntVal(choice) - 1 /\ IntVal(choice) - 1 < Len(modes)
          THEN /\ config' = [config EXCEPT !.mode = modes[IntVal(choice)]]
               /\ ctl' = after(config')
          ELSE config' = config /\ ctl' = Refuse(choice)
  /\ UNCHANGED <<is_admin, os_mac, is_running, scheduler_thread, file, log,
                 thr, ret, stop_in_wait, clock, stop_at, peer, call>>

\* Fixed interval in minutes
prompt_fixed ==
  /\ ctl.pc = "cfg_fixed"
  /\ \E interval \in NumberAnswers :
       IF interval = <<>> THEN config' = config /\ ctl' = Goto("cfg_start")
       ELSE IF ~IsInt(interval) THEN config' = config /\ ctl' = Refuse(interval)
       ELSE IF IntVal(interval) > 0
       THEN /\ config' = [config EXCEPT !.fixed_interval_minutes = IntVal(interval)]
            /\ ctl' = Goto("cfg_start")
       ELSE config' = config /\ ctl' = Refuse(interval)
  /\ UNCHANGED <<is_admin, os_mac, is_running, scheduler_thread, file, log,
                 thr, ret, stop_in_wait, clock, stop_at, peer, call>>

\* Minimum random interval in minutes
prompt_min ==
  /\ ctl.pc = "cfg_min"
  /\ \E min_interval \in NumberAnswers :
       IF min_interval = <<>> THEN config' = config /\ ctl' = Goto("cfg_max")
       ELSE IF ~IsInt(min_interval) THEN config' = config /\ ctl' = Refuse(min_interval)
       ELSE IF IntVal(min_interval) > 0
       THEN /\ config' = [config EXCEPT !.random_min_minutes = IntVal(min_interval)]
            /\ ctl' = Goto("cfg_max")
       ELSE config' = config /\ ctl' = Refuse(min_interval)
  /\ UNCHANGED <<is_admin, os_mac, is_running, scheduler_thread, file, log,
                 thr, ret, stop_in_wait, clock, stop_at, peer, call>>

\* the maximum prompt storing the number before it compares it with the
\* minimum
prompt_max_assigns_first ==
  /\ ctl.pc = "cfg_max"
  /\ \E max_interval \in NumberAnswers :
       IF max_interval = <<>> THEN config' = config /\ ctl' = Goto("cfg_start")
       ELSE IF ~IsInt(max_interval) THEN config' = config /\ ctl' = Refuse(max_interval)
       ELSE /\ config' = [config EXCEPT !.random_max_minutes = IntVal(max_interval)]
            /\ ctl' = IF IntVal(max_interval) >= config.random_min_minutes
                      THEN Goto("cfg_start")
                      ELSE Refuse(max_interval)
  /\ UNCHANGED <<is_admin, os_mac, is_running, scheduler_thread, file, log,
                 thr, ret, stop_in_wait, clock, stop_at, peer, call>>

\* Maximum random interval in minutes
prompt_max ==
  /\ ctl.pc = "cfg_max"
  /\ \E max_interval \in NumberAnswers :
       IF max_interval = <<>> THEN config' = config /\ ctl' = Goto("cfg_start")
       ELSE IF ~IsInt(max_interval) THEN config' = config /\ ctl' = Refuse(max_interval)
       ELSE IF IntVal(max_interval) >= config.random_min_minutes
       THEN /\ config' = [config EXCEPT !.random_max_minutes = IntVal(max_interval)]
            /\ ctl' = Goto("cfg_start")
       ELSE config' = config /\ ctl' = Refuse(max_interval)
  /\ UNCHANGED <<is_admin, os_mac, is_running, scheduler_thread, file, log,
                 thr, ret, stop_in_wait, clock, stop_at, peer, call>>

\* Start time (HH:MM)
prompt_start ==
  /\ ctl.pc = "cfg_start"
  /\ \E start_time \in StartAnswers :
       IF start_time = <<>> THEN config' = config /\ ctl' = Goto("cfg_end")
       ELSE IF strptime(start_time) # ValueError
       THEN /\ config' = [config EXCEPT !.start_time = start_time]
            /\ ctl' = Goto("cfg_end")
       ELSE config' = config /\ ctl' = Refuse(start_time)
  /\ UNCHANGED <<is_admin, os_mac, is_running, scheduler_thread, file, log,
                 thr, ret, stop_in_wait, clock, stop_at, peer, call>>

\* End time (HH:MM)
prompt_end ==
  /\ ctl.pc = "cfg_end"
  /\ \E end_time \in EndAnswers :
       IF end_time = <<>> THEN config' = config /\ ctl' = Goto("cfg_enabled")
       ELSE IF strptime(end_time) # ValueError
       THEN /\ config' = [config EXCEPT !.end_time = end_time]
            /\ ctl' = Goto("cfg_enabled")
       ELSE config' = config /\ ctl' = Refuse(end_time)
  /\ UNCHANGED <<is_admin, os_mac, is_running, scheduler_thread, file, log,
                 thr, ret, stop_in_wait, clock, stop_at, peer, call>>

\* Enable scheduler? (y/n), the last prompt; the configuration is saved next
prompt_enabled ==
  /\ ctl.pc = "cfg_enabled"
  /\ \E enabled \in EnabledAnswers :
       IF Lower(enabled) \in {<<>>, <<"y">>, <<"y", "e", "s">>, <<"n">>, <<"n", "o">>}
       THEN /\ config' =
                 IF enabled = <<>> THEN config
                 ELSE [config EXCEPT
                         !.enabled = Lower(enabled) \in {<<"y">>, <<"y", "e", "s">>}]
            /\ ctl' = Goto("save_open")
       ELSE /\ ctl' = Refuse(enabled)
            /\ config' = config
  /\ UNCHANGED <<is_admin, os_mac, is_running, scheduler_thread, file, log,
                 thr, ret, stop_in_wait, clock, stop_at, peer, call>>

\* save_config whose except clause goes back to the configuration of the file
save_config_open_reverts ==
  /\ ctl.pc = "save_open"
  /\ \E opened \in BOOLEAN :
       IF opened
       THEN /\ file' = EmptyFile
            /\ ctl' = [ctl EXCEPT !.pc = "save_dump", !.saving_over = file]
            /\ UNCHANGED <<ret, log, config>>
       ELSE /\ file' = file
            /\ config' = load_config(file)
            /\ log' = Append(log, "save_failed")
            /\ ctl' = IdleCtl(ctl.sessions)
            /\ ret' = [op |-> "configure", val |-> "None"]
  /\ UNCHANGED <<is_admin, os_mac, is_running, scheduler_thread, thr,
                 stop_in_wait, clock, stop_at, peer, call>>

\* save_config: open(self.config_file, 'w') empties the file, or raises, which
\* is logged; configure_interactive then shows the status and returns
save_config_open ==
  /\ ctl.pc = "save_open"
  /\ \E opened \in BOOLEAN :
       IF opened
       THEN /\ file' = EmptyFile
            /\ ctl' = [ctl EXCEPT !.pc = "save_dump", !.saving_over = file]
            /\ UNCHANGED <<ret, log>>
       ELSE /\ file' = file
            /\ log' = Append(log, "save_failed")
            /\ ctl' = IdleCtl(ctl.sessions)
            /\ ret' = [op |-> "configure", val |-> "None"]
  /\ UNCHANGED <<is_admin, os_mac, is_running, scheduler_thread, config, thr,
                 stop_in_wait, clock, stop_at, peer, call>>

\* save_config: json.dump(self.config, f, indent=2) and the close of the
\* file put the whole configuration into it, or raise, which is logged and
\* leaves the file without it
save_config_dump ==
  /\ ctl.pc = "save_dump"
  /\ \E written \in BOOLEAN :
       IF written
       THEN file' = JsonFile(ConfigKeys, config) /\ log' = log
       ELSE file' = file /\ log' = Append(log, "save_failed")
  /\ ctl' = IdleCtl(ctl.sessions)
  /\ ret' = [op |-> "configure", val |-> "None"]
  /\ UNCHANGED <<is_admin, os_mac, is_running, scheduler_thread, config, thr,
                 stop_in_wait, clock, stop_at, peer, call>>

(***************************************************************************)
(* The specification of configure_interactive beside a running loop        *)
(***************************************************************************)
InitConfig == InitWith(ConfigFiles)

NextConfig ==
  \/ start
  \/ configure_interactive
  \/ prompt_interface
  \/ prompt_mode
  \/ prompt_fixed
  \/ prompt_min
  \/ prompt_max
  \/ prompt_start
  \/ prompt_end
  \/ prompt_enabled
  \/ save_config_open
  \/ save_config_dump
  \/ \E t \in Threads : loop_while(t)
  \/ \E t \in Threads : Len(log) < MaxLog /\ change_mac_scheduled(t)
  \/ \E t \in Threads : change_mac_returns(t)
  \/ \E t \in Threads : next_interval_step(t)
  \/ \E t \in Threads : wait_while(t)
  \/ \E t \in Threads : sleep_returns(t)
  \/ \E t \in Threads : backoff_returns(t)

SpecConfig == InitConfig /\ [][NextConfig]_vars

(***************************************************************************)
(* configure_interactive and one start() with the clock of the timed       *)
(* specification; the answers of a session are typed within one second     *)
(***************************************************************************)
NextTimedConfig ==
  \/ (start_ok => thr = <<>>) /\ start
  \/ configure_interactive
  \/ prompt_interface
  \/ prompt_mode
  \/ prompt_fixed
  \/ prompt_min
  \/ prompt_max
  \/ prompt_start
  \/ prompt_end
  \/ prompt_enabled
  \/ save_config_open
  \/ save_config_dump
  \/ ~InConfigure /\ tick
  \/ \E t \in Threads : loop_while(t)
  \/ \E t \in Threads : change_mac_scheduled(t)
  \/ \E t \in Threads : change_mac_returns(t)
  \/ \E t \in Threads : next_interval_step(t)
  \/ \E t \in Threads : wait_while(t)
  \/ \E t \in Threads : thr[t].timer = 0 /\ sleep_returns(t)
  \/ \E t \in Threads : thr[t].timer = 0 /\ backoff_returns(t)

SpecTimedConfig == InitConfig /\ [][NextTimedConfig]_vars

(***************************************************************************)
(* configure_interactive alone: the scheduler is configured and not started *)
(***************************************************************************)
NextPrompts ==
  \/ configure_interactive
  \/ prompt_interface
  \/ prompt_mode
  \/ prompt_fixed
  \/ prompt_min
  \/ prompt_max
  \/ prompt_start
  \/ prompt_end
  \/ prompt_enabled
  \/ save_config_open
  \/ save_config_dump

SpecPrompts == InitConfig /\ [][NextPrompts]_vars

(***************************************************************************)
(* configure_interactive in one process while a second process is started  *)
(* and constructs its MACScheduler, which loads the same file               *)
(***************************************************************************)
\* a file that holds some of the keys, none with its default value
SomeKeysFile ==
  JsonFile({"interface", "random_max_minutes", "use_random_mac",
            "custom_mac_list", "enabled", "end_time"},
           [default_config EXCEPT !.interface = "eth0",
                                  !.random_max_minutes = 90,
                                  !.use_random_mac = FALSE,
                                  !.custom_mac_list = <<CustomMac, BadMac>>,
                                  !.enabled = TRUE, !.end_time = T0600])

\* what SmallRangeFile holds, in a file that cannot be opened for reading
UnreadableFile ==
  FileOf("unreadable", ConfigKeys,
         [default_config EXCEPT !.enabled = TRUE,
                                !.fixed_interval_minutes = 1,
                                !.random_min_minutes = 1,
                                !.random_max_minutes = 1,
                                !.use_random_mac = FALSE,
                                !.custom_mac_list = <<CustomMac>>])

\* a file cut off after its first two keys
CutOffFile ==
  FileOf("malformed", {"interface", "mode"},
         [default_config EXCEPT !.interface = "eth0", !.mode = "fixed_interval"])

\* a file that holds a JSON array
ArrayFile == [kind |-> "not_object", present |-> {}, data |-> <<>>]

StoredFiles ==
  {NoFile, SmallRangeFile, SomeKeysFile, UnreadableFile, CutOffFile, ArrayFile}

InitFile == InitWith(StoredFiles)

\* MACScheduler.__init__ in the second process: self.config =
\* self.load_config(); peer keeps the file as it was read, the configuration
\* returned and whether the error was logged
peer_load_config ==
  /\ peer = <<>>
  /\ peer' = <<[file |-> file, config |-> load_config(file),
                logged |-> load_config_fails(file), outcome |-> "returned"]>>
  /\ UNCHANGED <<is_admin, os_mac, is_running, scheduler_thread, config, file,
                 log, thr, ctl, ret, stop_in_wait, clock, stop_at, call>>

NextFile ==
  \/ configure_interactive
  \/ prompt_interface
  \/ prompt_mode
  \/ prompt_fixed
  \/ prompt_min
  \/ prompt_max
  \/ prompt_start
  \/ prompt_end
  \/ prompt_enabled
  \/ save_config_open
  \/ save_config_dump
  \/ peer_load_config

SpecFile == InitFile /\ [][NextFile]_vars

(***************************************************************************)
(* The construction of a MACScheduler on its own: load_config on a file    *)
(* that holds any set of the recognized keys, whole, cut off or unreadable *)
(***************************************************************************)
\* a configuration that differs from the defaults at every key
NoDefaultConfig ==
  [interface |-> "eth0", mode |-> "fixed_interval",
   fixed_interval_minutes |-> 45, random_min_minutes |-> 20,
   random_max_minutes |-> 90, use_random_mac |-> FALSE,
   custom_mac_list |-> <<CustomMac, BadMac>>, enabled |-> TRUE,
   start_time |-> T2200, end_time |-> T0600]

LoadFiles ==
  StoredFiles \cup
  {FileOf(kind, keys, NoDefaultConfig) :
     kind \in {"json", "malformed", "unreadable"}, keys \in SUBSET ConfigKeys}

InitLoad == InitWith(LoadFiles)

NextLoad == peer_load_config

SpecLoad == InitLoad /\ [][NextLoad]_vars

(***************************************************************************)
(* The methods of the scheduler called on their own: is_within_schedule,   *)
(* calculate_next_interval and get_next_mac on a constructed MACScheduler  *)
(***************************************************************************)
\* the times of day datetime.now().time() is sampled at for the direct calls
NowGrid ==
  {<<0, 0, 0>>, <<5, 59, 59>>, <<6, 0, 0>>, <<6, 0, 1>>, <<10, 0, 0>>,
   <<21, 59, 59>>, <<22, 0, 0>>, <<23, 30, 0>>, <<23, 59, 0>>, <<23, 59, 30>>}

\* the HH:MM texts a window is made of
WindowTexts == {T0000, T0600, T2200, T2359}

\* the configurations the direct calls are made on: every window; both
\* modes with the intervals up to MaxMinutes minutes and the default ones;
\* both address sources with an empty and a filled list
PureConfigs ==
  {[default_config EXCEPT !.start_time = w[1], !.end_time = w[2]] :
     w \in WindowTexts \X WindowTexts}
  \cup
  {[default_config EXCEPT !.mode = m[1], !.fixed_interval_minutes = m[2],
                          !.random_min_minutes = m[3],
                          !.random_max_minutes = m[4]] :
     m \in {"fixed_interval", "random_time"} \X (1..MaxMinutes) \X {1, 15} \X ((1..MaxMinutes) \cup {60})}
  \cup
  {[default_config EXCEPT !.use_random_mac = u[1], !.custom_mac_list = u[2]] :
     u \in BOOLEAN \X {<<>>, <<CustomMac>>, <<CustomMac, BadMac>>}}

\* the files these configurations are loaded from
PureFiles == {JsonFile(ConfigKeys, cfg) : cfg \in PureConfigs}

InitPure == InitWith(PureFiles)

\* scheduler.is_within_schedule() at a time of the grid
call_is_within_schedule ==
  /\ ctl.pc = "idle"
  /\ \E now \in NowGrid :
       call' = IF schedule_raises(config)
               THEN <<"is_within_schedule", now, "raised", ValueError>>
               ELSE <<"is_within_schedule", now, "returned",
                      is_within_schedule(config, now)>>
  /\ UNCHANGED <<is_admin, os_mac, is_running, scheduler_thread, config, file,
                 log, thr, ctl, ret, stop_in_wait, clock, stop_at, peer>>

\* scheduler.calculate_next_interval()
call_calculate_next_interval ==
  /\ ctl.pc = "idle"
  /\ IF calculate_next_interval(config) = {}
     THEN call' = <<"calculate_next_interval", <<>>, "raised", ValueError>>
     ELSE \E n \in calculate_next_interval(config) :
            call' = <<"calculate_next_interval", <<>>, "returned", n>>
  /\ UNCHANGED <<is_admin, os_mac, is_running, scheduler_thread, config, file,
                 log, thr, ctl, ret, stop_in_wait, clock, stop_at, peer>>

\* scheduler.get_next_mac()
call_get_next_mac ==
  /\ ctl.pc = "idle"
  /\ \E mac \in get_next_mac(config) :
       call' = <<"get_next_mac", <<>>, "returned", mac>>
  /\ UNCHANGED <<is_admin, os_mac, is_running, scheduler_thread, config, file,
                 log, thr, ctl, ret, stop_in_wait, clock, stop_at, peer>>

NextPure ==
  \/ call_is_within_schedule
  \/ call_calculate_next_interval
  \/ call_get_next_mac

SpecPure == InitPure /\ [][NextPure]_vars

(***************************************************************************)
(* The methods of MACChanger called on their own                           *)
(***************************************************************************)
\* the texts the codec is called with: addresses with colons, with hyphens,
\* in lower case, with both separators and both cases, with a newline at
\* the end; a text cut short and twelve digits without separators
LowerMac == random_mac(<<"0", "2">>, <<171, 205, 239, 1, 255>>)

MixedMac == <<"0", "a", "-", "1", "B", ":", "2", "c", "-", "3", "D", ":", "4", "e", "-", "5", "F">>

NewlineMac == FactoryMac \o <<"\n">>

BareMac == StripSeparators(FactoryMac)

MacTexts == {FactoryMac, CustomMac, LowerMac, MixedMac, NewlineMac, BadMac, BareMac}

\* the separators _normalize_mac is called with: ':' for the interface
\* listing, '' and '-' in _change_mac_windows
Separators == {<<":">>, <<>>, <<"-">>}

\* the octets random.randint(0, 255) is sampled at for the codec: five times
\* the same octet, for the ends of the range and the values around the
\* change of a hexadecimal digit, and one tail of different octets
CodecTails ==
  {[i \in 1..5 |-> octet] : octet \in {0, 9, 10, 15, 16, 127, 128, 255}}
    \cup {<<0, 15, 16, 255, 0>>}

InitCodec == InitWith({NoFile})

\* mac_changer.validate_mac_address(mac)
call_validate_mac_address ==
  /\ \E mac \in MacTexts :
       call' = <<"validate_mac_address", <<mac>>, "returned",
                 validate_mac_address(mac)>>
  /\ UNCHANGED <<is_admin, os_mac, is_running, scheduler_thread, config, file,
                 log, thr, ctl, ret, stop_in_wait, clock, stop_at, peer>>

\* mac_changer._normalize_mac(mac, separator)
call_normalize_mac ==
  /\ \E mac \in MacTexts, separator \in Separators :
       call' = <<"_normalize_mac", <<mac, separator>>, "returned",
                 normalize_mac(mac, separator)>>
  /\ UNCHANGED <<is_admin, os_mac, is_running, scheduler_thread, config, file,
                 log, thr, ctl, ret, stop_in_wait, clock, stop_at, peer>>

\* mac_changer.generate_random_mac()
call_generate_random_mac ==
  /\ \E fb \in FirstBytes, t \in CodecTails :
       call' = <<"generate_random_mac", <<>>, "returned", random_mac(fb, t)>>
  /\ UNCHANGED <<is_admin, os_mac, is_running, scheduler_thread, config, file,
                 log, thr, ctl, ret, stop_in_wait, clock, stop_at, peer>>

\* mac_changer.change_mac_address(interface, new_mac): the run is kept as
\* the result of the call
call_change_mac_address ==
  /\ \E interface \in IfNames, new_mac \in MacTexts :
       \E run \in change_mac_address_runs(interface, new_mac) :
         /\ call' = <<"change_mac_address", <<interface, new_mac>>, "returned", run>>
         /\ os_mac' = IF run.result THEN [os_mac EXCEPT ![interface] = new_mac]
                      ELSE os_mac
  /\ UNCHANGED <<is_admin, is_running, scheduler_thread, config, file, log,
                 thr, ctl, ret, stop_in_wait, clock, stop_at, peer>>

NextCodec ==
  \/ call_validate_mac_address
  \/ call_normalize_mac
  \/ call_generate_random_mac
  \/ call_change_mac_address

SpecCodec == InitCodec /\ [][NextCodec]_vars

(***************************************************************************)
(* The claims                                                              *)
(***************************************************************************)
LiveLoops == {t \in Threads : Alive(t)}

\* C1: start() called while the scheduler is running returns False and
\* spawns no thread: the run flag, the thread handle and the loop threads are
\* as before, the loop of the handle is alive, and it is the only loop
\* executing unless a loop of an earlier run is still alive.
C1_SecondStartFails ==
  [][(start /\ is_running) =>
       /\ ret' = [op |-> "start", val |-> "False"]
       /\ thr' = thr
       /\ scheduler_thread' = scheduler_thread
       /\ is_running'
       /\ scheduler_thread \in LiveLoops'
       /\ (LiveLoops \subseteq {scheduler_thread}) => LiveLoops' = {scheduler_thread}
    ]_vars

\* a start() has failed on a running scheduler whose one loop goes on
C1_Witness ==
  /\ ret = [op |-> "start", val |-> "False"]
  /\ is_running
  /\ Len(thr) = 1
  /\ LiveLoops = {1}

\* C2: at most one loop thread is alive and at most one controller call is
\* in flight, whatever start() and stop() calls were made.
C2_AtMostOneLoop ==
  /\ Cardinality(LiveLoops) <= 1
  /\ Cardinality(InFlight) <= 1

\* C3: once stop() has returned True the scheduler is stopped: the flag is
\* down and the loop thread of the handle has exited.
C3_StoppedWhenStopReturns ==
  ret = [op |-> "stop", val |-> "True"] =>
    /\ ~is_running
    /\ ~Alive(scheduler_thread)

\* C4: a loop that was in its inter-rotation wait when stop() was requested
\* begins no further rotation.
C4_NoRotationAfterStop ==
  [][\A t \in stop_in_wait :
       ~(thr[t].pc = "loop" /\ thr'[t].pc = "rotate")]_vars

\* C5: start() returns True, sets the flag and spawns one loop thread, which
\* has not rotated yet, exactly when the scheduler is stopped, enabled, run
\* with admin rights and its interface is enumerated; otherwise it returns
\* False and leaves the flag, the handle and the threads as they were.
C5_StartOutcome ==
  [][start =>
       IF /\ ~is_running
          /\ config.enabled
          /\ is_admin
          /\ os_mac[config.interface] # NoMac
       THEN /\ ret' = [op |-> "start", val |-> "True"]
            /\ is_running'
            /\ thr' = Append(thr, NewThread)
            /\ scheduler_thread' = Len(thr')
            /\ log' = log /\ os_mac' = os_mac
       ELSE /\ ret' = [op |-> "start", val |-> "False"]
            /\ is_running' = is_running
            /\ thr' = thr
            /\ scheduler_thread' = scheduler_thread
    ]_vars

\* start() has returned True and the loop it spawned has not yet begun its
\* first rotation
C5_Witness ==
  /\ ret = [op |-> "start", val |-> "True"]
  /\ is_running
  /\ thr[scheduler_thread].pc = "loop"
  /\ log = <<>>

\* the end-to-end run: a one-minute fixed interval with random addresses,
\* every controller call so far a success, and stop() called more than 60
\* seconds after the loop started has returned
C6_Run ==
  /\ config = load_config(FixedRandomFile)
  /\ ret = [op |-> "stop", val |-> "True"]
  /\ stop_at > SecPerMin
  /\ \A i \in 1..Len(log) : log[i] = "success"

\* C6 as stated: the end-to-end run logs exactly one success event and the
\* interface has a generated address.
C6_ExactlyOneEvent ==
  C6_Run =>
    /\ Len(log) = 1
    /\ os_mac[config.interface] \in generate_random_mac

\* C6: the end-to-end run logs one success event at the start and a second
\* one when the 60 seconds of the interval are over: one or two events, two
\* when stop() came after the second controller call could return, and the
\* interface has a generated address.
C6_OneOrTwoEvents ==
  C6_Run =>
    /\ Len(log) \in {1, 2}
    /\ stop_at > SecPerMin + 2 * MaxCallSec => Len(log) = 2
    /\ os_mac[config.interface] \in generate_random_mac

\* the end-to-end run has ended with two success events in the log
C6_Witness ==
  /\ C6_Run
  /\ ctl.pc = "idle"
  /\ log = <<"success", "success">>
  /\ os_mac[config.interface] \in generate_random_mac

\* the invariant of the configuration
ConfigInvariant(cfg) ==
  /\ cfg.random_min_minutes >= 1
  /\ cfg.random_min_minutes <= cfg.random_max_minutes
  /\ cfg.fixed_interval_minutes >= 1

\* C7: configure_interactive begun on a configuration that satisfies the
\* invariant ends with the configuration in memory and the saved one
\* satisfying it.
C7_ConfigInvariantKept ==
  [][(InConfigure /\ ctl'.pc = "idle" /\ ConfigInvariant(ctl.before)) =>
       /\ ConfigInvariant(config')
       /\ ConfigInvariant(load_config(file'))
    ]_vars

\* C8: an answer refused at the maximum prompt leaves the configuration in
\* memory and the file as they were, so that loading the file gives the
\* values it gave before.
C8_RejectedBeforeMutation ==
  [][(prompt_max /\ ctl'.rejected) =>
       /\ config' = config
       /\ file' = file
       /\ load_config(file') = load_config(file)
    ]_vars

\* a maximum below the minimum has been typed and refused, with the file
\* still holding the values the configuration was loaded from
C8_Witness ==
  /\ ctl.pc = "cfg_max"
  /\ ctl.rejected
  /\ IsInt(ctl.answer)
  /\ IntVal(ctl.answer) >= 1
  /\ IntVal(ctl.answer) < config.random_min_minutes
  /\ config.random_max_minutes = ctl.before.random_max_minutes
  /\ load_config(file) = ctl.before

\* C9: when configure_interactive ends, every configuration a loop has read
\* since it began is the one it found or the one it leaves.
C9_NoPartialRead ==
  [][(InConfigure /\ ctl'.pc = "idle") =>
       ctl.seen \subseteq {ctl.before, config'}
    ]_vars

\* the window of the schedule: active from start to end, or over midnight
\* when start is after end
OutsideWindow(cfg, now) ==
  LET start_time == strptime(cfg.start_time)
      end_time == strptime(cfg.end_time)
  IN IF TimeLE(start_time, end_time)
     THEN ~(TimeLE(start_time, now) /\ TimeLE(now, end_time))
     ELSE ~(TimeLE(start_time, now) \/ TimeLE(now, end_time))

\* the seconds the next interval can be
IntervalsOf(cfg) ==
  IF cfg.mode = "fixed_interval"
  THEN {cfg.fixed_interval_minutes * SecPerMin}
  ELSE (cfg.random_min_minutes * SecPerMin)..(cfg.random_max_minutes * SecPerMin)

\* C10: an iteration that reads a time outside the window makes no
\* controller call, logs a skipped event and leaves the addresses alone; the
\* loop then computes an interval of the configuration and waits, or, when
\* the random range is empty, logs the error and sleeps the backoff: it does
\* not end.
C10_SkipOutsideWindow ==
  [][\A t \in Threads :
       /\ (/\ thr[t].pc = "rotate"
           /\ thr'[t].pc # "rotate"
           /\ thr'[t].now # NoTime
           /\ OutsideWindow(config, thr'[t].now)) =>
            /\ thr'[t].pc = "interval"
            /\ t \notin InFlight'
            /\ log' = Append(log, "skipped")
            /\ os_mac' = os_mac
       /\ (/\ thr[t].pc = "interval"
           /\ thr[t].now # NoTime
           /\ thr'[t] # thr[t]) =>
            /\ thr'[t].pc \in {"wait", "backoff"}
            /\ thr'[t].pc = "wait" =>
                 /\ thr'[t].next_interval \in IntervalsOf(config)
                 /\ thr'[t].elapsed = 0
                 /\ log' = log
            /\ thr'[t].pc = "backoff" => IntervalsOf(config) = {}
    ]_vars

\* a loop has skipped its rotation outside the window and is in the wait of
\* the interval it computed
C10_Witness ==
  /\ is_running
  /\ log = <<"skipped">>
  /\ \E t \in Threads :
       /\ thr[t].pc = "wait"
       /\ thr[t].next_interval = config.fixed_interval_minutes * SecPerMin

\* the seconds since midnight of a time of day
SecondsOfDay(t) == 3600 * t[1] + 60 * t[2] + t[3]

\* the window as the specification words it, on seconds since midnight
ActiveAt(start_text, end_text, now) ==
  LET s == SecondsOfDay(strptime(start_text))
      e == SecondsOfDay(strptime(end_text))
      n == SecondsOfDay(now)
  IN IF s <= e THEN s <= n /\ n <= e ELSE n >= s \/ n <= e

\* C11: is_within_schedule returns true exactly when now is in the window:
\* from start to end when start <= end, and from start over midnight to end
\* when start > end; 22:00-06:00 is active at 23:30 and inactive at 10:00.
C11_WindowSemantics ==
  (Len(call) = 4 /\ call[1] = "is_within_schedule") =>
    /\ call[3] = "returned"
    /\ call[4] = ActiveAt(config.start_time, config.end_time, call[2])
    /\ (config.start_time = T2200 /\ config.end_time = T0600) =>
         /\ call[2] = <<23, 30, 0>> => call[4] = TRUE
         /\ call[2] = <<10, 0, 0>> => call[4] = FALSE

\* is_within_schedule has returned true for 23:30 in the window 22:00-06:00
C11_Witness ==
  /\ config.start_time = T2200
  /\ config.end_time = T0600
  /\ call = <<"is_within_schedule", <<23, 30, 0>>, "returned", TRUE>>

\* C14: calculate_next_interval returns fixed_interval_minutes * 60 in the
\* fixed mode and, in the random mode, a number of seconds from
\* random_min_minutes * 60 to random_max_minutes * 60; from 900 to 3600 for
\* the range of 15 to 60 minutes.
C14_IntervalRange ==
  (Len(call) = 4 /\ call[1] = "calculate_next_interval" /\ call[3] = "returned") =>
    IF config.mode = "fixed_interval"
    THEN call[4] = config.fixed_interval_minutes * 60
    ELSE /\ config.random_min_minutes * 60 <= call[4]
         /\ call[4] <= config.random_max_minutes * 60
         /\ (config.random_min_minutes = 15 /\ config.random_max_minutes = 60) =>
              call[4] \in 900..3600

\* calculate_next_interval has returned the upper end of the range of 15 to
\* 60 minutes
C14_Witness ==
  /\ config.mode = "random_time"
  /\ config.random_min_minutes = 15
  /\ config.random_max_minutes = 60
  /\ call = <<"calculate_next_interval", <<>>, "returned", 3600>>

\* a locally administered unicast address in the colon form
LocallyAdministered(mac) ==
  /\ Len(mac) = 17
  /\ \A i \in 1..17 : IF i % 3 = 0 THEN mac[i] = ":" ELSE mac[i] \in HexChars
  /\ mac[2] \in {"2", "6", "A", "E"}

\* C15: get_next_mac returns an entry of custom_mac_list when the source is
\* the custom list and the list has an entry, and a generated locally
\* administered address in every other case.
C15_AddressSelection ==
  (Len(call) = 4 /\ call[1] = "get_next_mac") =>
    IF ~config.use_random_mac /\ config.custom_mac_list # <<>>
    THEN \E i \in 1..Len(config.custom_mac_list) : call[4] = config.custom_mac_list[i]
    ELSE LocallyAdministered(call[4])

\* get_next_mac has returned a generated address although the custom list
\* has entries, the source being the random one
C15_Witness ==
  /\ config.use_random_mac
  /\ config.custom_mac_list # <<>>
  /\ Len(call) = 4
  /\ call[1] = "get_next_mac"
  /\ LocallyAdministered(call[4])

\* C12: with a controller whose every call fails, a failed call is logged as
\* a failure and followed by the computation of the interval, and the loop
\* that logged it begins its next iteration only out of a wait that lasted
\* the whole interval.
C12_NoImmediateRetry ==
  [][\A t \in Threads :
       /\ (thr[t].pc = "call" /\ thr'[t].pc # "call") =>
            /\ thr'[t].pc = "interval"
            /\ log' \in {Append(log, "success"), Append(log, "failure")}
       /\ (/\ thr[t].pc = "loop"
           /\ thr'[t].pc = "rotate"
           /\ thr[t].logged_at >= 0
           /\ \A i \in 1..Len(log) : log[i] = "failure") =>
            ~thr[t].cut
    ]_vars

\* C13: an error raised in the loop body, by the rotation step or by the
\* computation of the interval, is logged and sends the loop into the
\* 60-second backoff; the loop leaves the backoff 60 seconds after the error
\* and only for the test of the run flag, from which it begins the next
\* iteration when the flag is set; a loop ends only with the flag cleared.
C13_ErrorBacksOff ==
  [][\A t \in Threads :
       /\ (\/ thr[t].pc = "rotate" /\ thr'[t].pc # "rotate" /\ schedule_raises(config)
           \/ /\ thr[t].pc = "interval" /\ thr'[t].pc # "interval"
              /\ config.mode = "random_time"
              /\ config.random_min_minutes > config.random_max_minutes) =>
            /\ log' = Append(log, "error")
            /\ thr'[t].pc = "backoff"
            /\ thr'[t].timer = BackoffSec
       /\ (thr[t].pc = "backoff" /\ thr'[t].pc # "backoff") =>
            /\ thr'[t].pc = "loop"
            /\ clock = thr[t].logged_at + BackoffSec
            /\ log' = log
       /\ (thr[t].pc = "loop" /\ thr'[t].pc # "loop") =>
            thr'[t].pc = IF is_running THEN "rotate" ELSE "done"
       /\ (Alive(t) /\ thr'[t].pc = "done") => ~is_running
    ]_vars

\* the loop is back at the rotation step a minute after each kind of error
C13_Witness ==
  /\ clock = BackoffSec
  /\ is_running
  /\ \E t \in Threads : thr[t].pc = "rotate"
  /\ log # <<>>
  /\ log[Len(log)] = "error"
  /\ schedule_raises(config)

\* C16: stop() called while the scheduler is not running returns False and
\* changes neither the run flag, nor the thread handle, nor the
\* configuration, nor its file, nor any loop.
C16_StopWhenStopped ==
  [][(stop /\ ~is_running) =>
       /\ ret' = [op |-> "stop", val |-> "False"]
       /\ UNCHANGED <<is_running, scheduler_thread, config, file, thr, ctl>>
    ]_vars

\* stop() has returned False after an earlier stop() of a started scheduler
C16_Witness ==
  /\ ret = [op |-> "stop", val |-> "False"]
  /\ ~is_running
  /\ scheduler_thread # 0
  /\ ctl.pc = "idle"

\* C17: when configure_interactive has written the file, load_config of the
\* file returns the configuration in memory, key by key.
C17_SaveThenLoad ==
  [][(save_config_dump /\ file' # file) =>
       \A k \in ConfigKeys : load_config(file')[k] = config'[k]
    ]_vars

\* configure_interactive has ended with the file written, after a session
\* that chose eth0, a window over midnight and a fixed interval
C17_Witness ==
  /\ ctl.pc = "idle"
  /\ ctl.sessions = 1
  /\ ret = [op |-> "configure", val |-> "None"]
  /\ file.kind = "json"
  /\ file.present = ConfigKeys
  /\ config.interface = "eth0"
  /\ config.mode = "fixed_interval"
  /\ config.start_time = T2200
  /\ config.end_time = T0600
  /\ load_config(file) = config

\* the defaults as documented
DocumentedDefaults ==
  [interface |-> "Wi-Fi", mode |-> "random_time",
   random_min_minutes |-> 15, random_max_minutes |-> 60,
   fixed_interval_minutes |-> 30, use_random_mac |-> TRUE,
   custom_mac_list |-> <<>>, start_time |-> <<"0", "0", ":", "0", "0">>,
   end_time |-> <<"2", "3", ":", "5", "9">>, enabled |-> FALSE]

\* C18: load_config of a file that holds a JSON object returns, for every
\* recognized key, the value the file gives it when the file holds the key
\* and the documented default when it does not; with no file it returns the
\* documented defaults.
C18_MergeOverDefaults ==
  (peer # <<>> /\ peer[1].file.kind \in {"json", "absent"}) =>
    /\ DOMAIN peer[1].config = ConfigKeys
    /\ \A k \in ConfigKeys :
         IF k \in peer[1].file.present
         THEN json_dumps(k, peer[1].config[k]) = peer[1].file.data[k]
         ELSE peer[1].config[k] = DocumentedDefaults[k]
    /\ peer[1].file.kind = "absent" => peer[1].config = DocumentedDefaults

\* a file with some of the keys has been loaded: eth0 and a maximum of 90
\* from the file, the minimum of 15 and the random mode from the defaults
C18_Witness ==
  /\ peer # <<>>
  /\ peer[1].file.kind = "json"
  /\ peer[1].file.present = {"interface", "random_max_minutes"}
  /\ peer[1].config.interface = "eth0"
  /\ peer[1].config.random_max_minutes = 90
  /\ peer[1].config.random_min_minutes = 15
  /\ peer[1].config.mode = "random_time"

\* C19: load_config of a file that cannot be read, or whose text cannot be
\* parsed as a JSON object, logs the error and returns the documented
\* defaults, with no value of the file in them, and does not raise.
C19_FailsSoft ==
  (peer # <<>> /\ peer[1].file.kind \in {"unreadable", "malformed", "not_object"}) =>
    /\ peer[1].outcome = "returned"
    /\ peer[1].logged
    /\ peer[1].config = DocumentedDefaults

\* a file cut off after "interface": "eth0" has been loaded
C19_Witness ==
  /\ peer # <<>>
  /\ peer[1].file.kind = "malformed"
  /\ "interface" \in peer[1].file.present
  /\ json_loads("interface", peer[1].file.data["interface"]) = "eth0"
  /\ peer[1].config.interface = "Wi-Fi"
  /\ peer[1].logged

\* C20: a load_config that runs while save_config is writing the file reads
\* the file as it was before the save or as the save leaves it when it has
\* written the configuration.
C20_NoHalfWrittenRead ==
  [][(peer_load_config /\ ctl.pc = "save_dump") =>
       peer'[1].file \in {ctl.saving_over, JsonFile(ConfigKeys, config)}
    ]_vars

\* C21: a save_config that cannot open or write the file logs the failure and
\* returns: configure_interactive ends normally, the configuration in memory
\* keeps the values it was edited to, and the run flag, the thread handle
\* and the loops are untouched.
C21_SaveFailureKeepsConfig ==
  [][(\/ save_config_open /\ ctl'.pc = "idle"
      \/ save_config_dump /\ file' = file) =>
       /\ config' = config
       /\ log' = Append(log, "save_failed")
       /\ ret' = [op |-> "configure", val |-> "None"]
       /\ ctl'.pc = "idle"
       /\ UNCHANGED <<is_running, scheduler_thread, thr>>
    ]_vars

\* the save has failed after a session that chose a fixed interval of two
\* minutes: the file still gives the random mode, and the running loop has
\* computed its next wait from the configuration in memory
C21_Witness ==
  /\ ctl.pc = "idle"
  /\ ctl.sessions = 1
  /\ is_running
  /\ \E i \in 1..Len(log) : log[i] = "save_failed"
  /\ config.mode = "fixed_interval"
  /\ config.fixed_interval_minutes = 2
  /\ load_config(file).mode = "random_time"
  /\ \E t \in Threads : thr[t].pc = "wait" /\ thr[t].next_interval = 2 * SecPerMin

\* C22: until a start() has spawned a loop, the scheduler is stopped with no
\* thread handle, whatever the configuration loaded from the file, and
\* nothing has been rotated: no event is logged, no controller call is in
\* flight and the addresses are those the system began with.
C22_StartsStopped ==
  thr = <<>> =>
    /\ ~is_running
    /\ scheduler_thread = 0
    /\ log = <<>>
    /\ os_mac \in InitOs

\* constructed on a file with enabled true; stop() has since found the
\* scheduler stopped
C22_Witness ==
  /\ thr = <<>>
  /\ config.enabled
  /\ load_config(file).enabled
  /\ ret = [op |-> "stop", val |-> "False"]

\* C23: status() leaves the run flag, the thread handle, the configuration
\* in memory and the file as they are, calls no operation of the controller
\* (no address changes and no call is begun or ended) and touches no loop.
C23_StatusReadOnly ==
  [][status =>
       UNCHANGED <<is_running, scheduler_thread, config, file, os_mac, thr,
                   log, ctl>>
    ]_vars

\* status() has returned while the scheduler runs and a controller call of
\* its loop is in flight
C23_Witness ==
  /\ ret = [op |-> "status", val |-> "None"]
  /\ is_running
  /\ scheduler_thread # 0
  /\ InFlight # {}

\* C24 as stated: _normalize_mac of a text that validate_mac_address
\* accepts, with any separator it is called with, is accepted too.
C24_RoundTrip ==
  (/\ call # <<>>
   /\ call[1] = "_normalize_mac"
   /\ validate_mac_address(call[2][1])) =>
    validate_mac_address(call[4])

\* C24 as the code has it: the text is accepted again when the separator is
\* ':' or '-'; with the empty separator the result is the twelve digits
\* alone, which validate_mac_address refuses.
C24_RoundTripWithSeparator ==
  (/\ call # <<>>
   /\ call[1] = "_normalize_mac"
   /\ validate_mac_address(call[2][1])) =>
    IF call[2][2] \in {<<":">>, <<"-">>}
    THEN validate_mac_address(call[4]) /\ Len(call[4]) = 17
    ELSE ~validate_mac_address(call[4]) /\ Len(call[4]) = 12

\* an address in both cases and with both separators, ended by a newline
\* or not, has been normalized with '-'
C24_Witness ==
  /\ call # <<>>
  /\ call[1] = "_normalize_mac"
  /\ call[2][1] = MixedMac
  /\ call[2][2] = <<"-">>
  /\ call[4] = <<"0", "A", "-", "1", "B", "-", "2", "C", "-", "3", "D", "-", "4", "E", "-", "5", "F">>

\* the number a hexadecimal digit stands for
HexDigitVal(c) ==
  IF \E i \in 1..16 : LowerHex[i] = c
  THEN (CHOOSE i \in 1..16 : LowerHex[i] = c) - 1
  ELSE (CHOOSE i \in 1..16 : UpperHex[i] = c) - 1

\* C25: the first octet of an address of generate_random_mac is 0x02, 0x06,
\* 0x0A or 0x0E, so that its locally-administered bit is set and its
\* multicast bit is clear, and validate_mac_address accepts the address.
C25_RandomMacShape ==
  (call # <<>> /\ call[1] = "generate_random_mac") =>
    LET mac == call[4]
        first == 16 * HexDigitVal(mac[1]) + HexDigitVal(mac[2])
    IN /\ first \in {2, 6, 10, 14}
       /\ (first \div 2) % 2 = 1
       /\ first % 2 = 0
       /\ validate_mac_address(mac)
       /\ Len(mac) = 17

\* an address with the octets 0x00 and 0x0f has been generated
C25_Witness ==
  /\ call # <<>>
  /\ call[1] = "generate_random_mac"
  /\ call[4] = <<"0", "E", ":", "0", "0", ":", "0", "f", ":", "1", "0", ":", "f", "f", ":", "0", "0">>

\* C26: change_mac_address called with an address validate_mac_address
\* refuses, or without the rights, returns False before any command of the
\* operating system and leaves the addresses as they are; an exception that
\* leaves the method of the operating system becomes the result False; the
\* call always returns.
C26_RejectBeforeTouch ==
  [][call_change_mac_address =>
       LET run == call'[4] IN
       /\ call'[3] = "returned"
       /\ (~validate_mac_address(call'[2][2]) \/ ~is_admin) =>
            ~run.result /\ ~run.issued /\ os_mac' = os_mac
       /\ run.outcome = "raised" => ~run.result /\ os_mac' = os_mac
       /\ run.result => os_mac'[call'[2][1]] = call'[2][2]
    ]_vars

\* an administrator has asked for an address that is cut short; no command
\* was issued
C26_Witness ==
  /\ call # <<>>
  /\ call[1] = "change_mac_address"
  /\ is_admin
  /\ call[2][2] = BadMac
  /\ ~call[4].result
  /\ ~call[4].issued

\* the shortest interval a configuration asks for, in seconds
IntervalFloor(cfg) ==
  IF cfg.mode = "fixed_interval" THEN cfg.fixed_interval_minutes * SecPerMin
  ELSE cfg.random_min_minutes * SecPerMin

\* C27: beginning with a valid configuration, a controller call of the loop
\* that follows an earlier one with nothing but an error of the loop
\* between them begins no sooner than the configured interval after it:
\* rotations are not spaced by the backoff alone.
C27_NoBackoffSpacedRotations ==
  [][\A t \in Threads :
       (/\ thr[t].pc = "rotate"
        /\ thr'[t].pc = "call"
        /\ Len(log) >= 2
        /\ log[Len(log)] = "error"
        /\ log[Len(log) - 1] \in {"success", "failure"}) =>
         clock - thr[t].logged_at >= IntervalFloor(config)
    ]_vars

\* loop t is at one of the places pcs of scheduler_loop
LoopAt(t, pcs) == t \in Threads /\ thr[t].pc \in pcs

\* C29: with the scheduler running, no stop() and every controller call and
\* sleep coming to its end, the loop begins a further iteration again and
\* again: after an iteration that ended in success, in failure, in a skip
\* outside the window, or in an error, another one begins.
C29_LoopGoesOn ==
  /\ [](is_running => <>(\E t \in Threads : thr[t].pc = "rotate"))
  /\ \A t \in 1..MaxThreads :
       [](LoopAt(t, {"call", "interval", "wait", "sleep", "backoff"})
            => <>LoopAt(t, {"rotate"}))

\* the loop is at the start of an iteration again after one that ended in
\* an error
C29_Witness ==
  /\ is_running
  /\ \E t \in Threads : thr[t].pc = "rotate" /\ thr[t].logged_at >= 0
  /\ schedule_raises(config)

\* the seconds loop t has slept since its wait began: the interval step
\* follows the logged outcome of the rotation at once
SleptInWait(t) == clock - thr[t].logged_at

\* C30: the chunked wait of the loop sleeps next_interval seconds in all
\* when the flag stays set: no chunk is longer than 30 seconds or than what
\* is left of the interval, the chunks slept so far add up to the smaller of
\* elapsed and next_interval, and a wait that ends with the flag set ends
\* exactly next_interval seconds after it began; with the flag cleared the
\* wait ends within 30 seconds, for the flag is read before every chunk.
C30_ChunkedWait ==
  /\ [](\A t \in Threads :
          /\ thr[t].pc = "sleep" =>
               /\ thr[t].timer <= PollSec
               /\ thr[t].elapsed < thr[t].next_interval
               /\ SleptInWait(t) + thr[t].timer =
                    (IF thr[t].elapsed + PollSec < thr[t].next_interval
                     THEN thr[t].elapsed + PollSec ELSE thr[t].next_interval)
          /\ thr[t].pc = "wait" =>
               SleptInWait(t) =
                 (IF thr[t].elapsed < thr[t].next_interval
                  THEN thr[t].elapsed ELSE thr[t].next_interval)
          /\ thr[t].pc \in {"wait", "sleep"} /\ ~is_running =>
               clock - stop_at <= PollSec)
  /\ [][\A t \in Threads :
          thr[t].pc = "wait" /\ thr'[t].pc = "loop" /\ is_running
            => SleptInWait(t) = thr[t].next_interval]_vars

\* a wait of three chunks, the last one shorter than 30 seconds, is over
\* with the flag still set
C30_Witness ==
  \E t \in Threads :
    /\ thr[t].pc = "wait"
    /\ is_running
    /\ thr[t].next_interval > 2 * PollSec
    /\ thr[t].next_interval % PollSec # 0
    /\ thr[t].elapsed = 3 * PollSec
    /\ SleptInWait(t) = thr[t].next_interval

\* C28: a loop that was in its wait when stop() cleared the flag ends in the
\* end, whatever start() calls follow: no later start() keeps it running.
C28_StoppedLoopEnds ==
  \A t \in 1..MaxThreads : (t \in stop_in_wait) ~> LoopAt(t, {"done"})

====
